---- MODULE Spec2Model ----
(***************************************************************************)
(* Zeus::ZeusSuperblockHeaderHelper                                        *)
(* (src/libos/librdma/mem/include/zeus/zeussuperblockheader.h):            *)
(* the control block of one superblock of fixed-size slots, with its reap  *)
(* cursor, its free list and its pin table.                                *)
(*                                                                         *)
(* The header object is the record hdr; every method of the class is an    *)
(* operator from a header (and a pointer) to a result record               *)
(*   [hdr |-> the header after the call, fatal |-> "no" or the assertion   *)
(*    that aborted the process (, ptr |-> the value returned)].            *)
(* Addresses are the integers the code computes with.  assert() is         *)
(* modelled as compiled in: a failed assertion aborts the process.         *)
(***************************************************************************)
EXTENDS Integers, Sequences, FiniteSets, TLC

\* enum { Alignment = 16 }
Alignment == 16

\* #define IN_USE 1
IN_USE == 1

\* nullptr
NULL == 0

\* #define MAX_PINNED 100 in the source.  The table is only ever scanned
\* linearly, so the model keeps its capacity small enough to fill it.
MAX_PINNED == 2

\* The largest _totalObjects of the superblocks constructed.
MaxObjects == 3

\* The slot region starts StartUnits * Alignment bytes into the address
\* space: the header lies before it, so _start is never 0.
StartUnits == 4

VARIABLES
    hdr,      \* the fields of the ZeusSuperblockHeaderHelper object
    fatal,    \* "no", or the assertion that aborted the process
    live,     \* history: the addresses malloc() returned and free() was not yet called on
    deferred, \* history: the addresses free() was called on while a pin table entry
              \* named them, and that unpin() has not reclaimed since
    scen      \* the scenario a specification drives, if any: its stage, the
              \* allocation it is about, and the callers' local variables

vars == <<hdr, fatal, live, deferred, scen>>

----------------------------------------------------------------------------
\* Arithmetic on machine words.

\* x & y on non-negative words.
RECURSIVE BitAnd(_, _)
BitAnd(x, y) ==
    IF x = 0 \/ y = 0 THEN 0
    ELSE (x % 2) * (y % 2) + 2 * BitAnd(x \div 2, y \div 2)

\* x | y on non-negative words.
BitOr(x, y) == x + y - BitAnd(x, y)

\* _pinned[i] & ~(uint64_t)IN_USE
AddrOf(word) == word - BitAnd(word, IN_USE)

\* _pinned[i] & (uint64_t)IN_USE
FlagOf(word) == BitAnd(word, IN_USE)

\* !(sz & (sz - 1)) && sz
\* The test of the constructor without its sz & (sz - 1) part on bit 1 and up:
\* every even size passes.
IsPowerOfTwo_anyEven(sz) == sz % 2 = 0 /\ sz # 0

IsPowerOfTwo(sz) == BitAnd(sz, sz - 1) = 0 /\ sz # 0

\* The least index of a set of indices: the first one a for loop meets.
First(S) == CHOOSE i \in S : \A j \in S : i <= j

----------------------------------------------------------------------------
\* Results of a call.

Ok(h) == [hdr |-> h, fatal |-> "no"]

Abort(h, why) == [hdr |-> h, fatal |-> why]

----------------------------------------------------------------------------
\* FreeSLList (Heap Layers): an intrusive LIFO list; the head of the sequence
\* is the entry get() returns next.

FreeSLList_insert(list, e) == <<e>> \o list

FreeSLList_get(list) ==
    IF list = <<>> THEN [ptr |-> NULL, list |-> list]
    ELSE [ptr |-> Head(list), list |-> Tail(list)]

FreeSLList_clear(list) == <<>>

----------------------------------------------------------------------------
\* The methods.

\* HL::align<Alignment>(v): v rounded up to a multiple of Alignment.
align(v) == ((v + Alignment - 1) \div Alignment) * Alignment

\* clear() that resets the counters and the cursor and keeps the free list.
clear_keepFreeList(h) ==
    [h EXCEPT !.objectsFree = h.totalObjects,
              !.reapableObjects = h.totalObjects,
              !.position = align(h.start)]

clear(h) ==
    [h EXCEPT !.freeList = FreeSLList_clear(@),
              !.objectsFree = h.totalObjects,
              !.reapableObjects = h.totalObjects,
              !.position = align(h.start)]

\* normalize() that takes the mask path whatever the object size.
normalize_maskAlways(h, ptr) ==
    ptr - BitAnd(ptr - h.start, h.objectSize - 1)

normalize(h, ptr) ==
    LET offset == ptr - h.start
    IN  IF h.objectSizeIsPowerOfTwo
        THEN ptr - BitAnd(offset, h.objectSize - 1)
        ELSE ptr - (offset % h.objectSize)

getSize(h, ptr) ==
    LET offset == ptr - h.start
    IN  IF h.objectSizeIsPowerOfTwo
        THEN h.objectSize - BitAnd(offset, h.objectSize - 1)
        ELSE h.objectSize - (offset % h.objectSize)

\* reapAlloc() that hands out the cursor without advancing it.
reapAlloc_noAdvance(h) ==
    IF h.reapableObjects > 0
    THEN [hdr |-> [h EXCEPT !.reapableObjects = @ - 1, !.objectsFree = @ - 1],
          fatal |-> "no",
          ptr |-> h.position]
    ELSE [hdr |-> h, fatal |-> "no", ptr |-> NULL]

reapAlloc(h) ==
    IF h.reapableObjects > 0
    THEN [hdr |-> [h EXCEPT !.position = h.position + h.objectSize,
                            !.reapableObjects = @ - 1,
                            !.objectsFree = @ - 1],
          fatal |-> IF h.position % Alignment = 0 THEN "no" ELSE "assert",
          ptr |-> h.position]
    ELSE [hdr |-> h, fatal |-> "no", ptr |-> NULL]

freeListAlloc(h) ==
    LET g == FreeSLList_get(h.freeList)
    IN  IF g.ptr # NULL
        THEN [hdr |-> [h EXCEPT !.freeList = g.list, !.objectsFree = @ - 1],
              fatal |-> IF h.objectsFree >= 1 THEN "no" ELSE "assert",
              ptr |-> g.ptr]
        ELSE [hdr |-> h, fatal |-> "no", ptr |-> NULL]

\* malloc() that gives up when the reap cursor is exhausted.
malloc_noFallback(h) == reapAlloc(h)

\* malloc() that serves the free list before the never-touched slots.
malloc_freeListFirst(h) ==
    LET r1 == freeListAlloc(h)
    IN  IF r1.ptr = NULL THEN reapAlloc(h) ELSE r1

malloc(h) ==
    LET r1 == reapAlloc(h)
        r2 == IF r1.ptr = NULL /\ r1.fatal = "no" THEN freeListAlloc(r1.hdr) ELSE r1
    IN  IF r2.fatal = "no" /\ r2.ptr # NULL
           /\ (r2.ptr % Alignment # 0 \/ getSize(r2.hdr, r2.ptr) < h.objectSize)
        THEN [r2 EXCEPT !.fatal = "assert"]
        ELSE r2

\* The release of a slot that no pin table entry names: lines 137-141 of
\* free() and, with the same text, lines 193-197 of unpin().
reclaim(h, obj) ==
    LET h1 == [h EXCEPT !.freeList = FreeSLList_insert(@, obj),
                        !.objectsFree = @ + 1]
    IN  IF h1.objectsFree = h1.totalObjects THEN clear(h1) ELSE h1

\* The for loops of free() and unpin(): the index of the first entry that
\* names addr, 0 when none does.
findPinned(h, addr) ==
    LET hit == {i \in 1..MAX_PINNED : AddrOf(h.pinned[i]) = addr}
    IN  IF hit = {} THEN 0 ELSE First(hit)

\* free() from the point where its loop has stopped at entry i (0: at none).
free_at(h, ptr, i) ==
    IF i # 0
    THEN IF FlagOf(h.pinned[i]) # 1 THEN Abort(h, "assert")
         ELSE Ok([h EXCEPT !.pinned[i] = AddrOf(@)])
    ELSE Ok(reclaim(h, ptr))

free(h, ptr) ==
    IF ptr % Alignment # 0 THEN Abort(h, "assert")
    ELSE free_at(h, ptr, findPinned(h, ptr))

\* pin() that reuses the last entry when the table is full.
pin_overwriteLast(h, ptr) ==
    LET obj == normalize(h, ptr)
        empty == {i \in 1..MAX_PINNED : h.pinned[i] = 0}
    IN  Ok([h EXCEPT !.pinned[IF empty # {} THEN First(empty) ELSE MAX_PINNED] =
                         BitOr(obj, IN_USE)])

pin(h, ptr) ==
    LET obj == normalize(h, ptr)
        empty == {i \in 1..MAX_PINNED : h.pinned[i] = 0}
    IN  IF empty # {}
        THEN Ok([h EXCEPT !.pinned[First(empty)] = BitOr(obj, IN_USE)])
        ELSE Abort(h, "pin")

\* unpin() from the point where its loop has stopped at entry i (0: at none)
\* and has read the entry's flag.
unpin_at(h, obj, i, flagClear) ==
    IF i # 0
    THEN Ok([(IF flagClear THEN reclaim(h, obj) ELSE h) EXCEPT !.pinned[i] = 0])
    ELSE Abort(h, "unpin")

\* unpin() that reclaims the slot whatever the entry's flag.
unpin_alwaysReclaim(h, ptr) ==
    LET obj == normalize(h, ptr)
        i == findPinned(h, obj)
    IN  unpin_at(h, obj, i, TRUE)

unpin(h, ptr) ==
    LET obj == normalize(h, ptr)
        i == findPinned(h, obj)
    IN  unpin_at(h, obj, i, i # 0 /\ FlagOf(h.pinned[i]) = 0)

setOwner(h, o) == [h EXCEPT !.owner = o]

setNext(h, n) == [h EXCEPT !.next = n]

setPrev(h, p) == [h EXCEPT !.prev = p]

\* lock() that returns without waiting for the holder.
lock_noWait(h) == [ok |-> TRUE, hdr |-> [h EXCEPT !.theLock = TRUE]]

\* lock(): returns (ok) only when no one holds _theLock, and then holds it.
lock(h) == [ok |-> ~h.theLock, hdr |-> [h EXCEPT !.theLock = TRUE]]

unlock(h) == [h EXCEPT !.theLock = FALSE]

----------------------------------------------------------------------------
\* Construction.

\* The words the never-initialised _pinned array may hold when the
\* constructor returns: the address of slot 0 with either flag (what a header
\* built earlier at the same place left there).
StaleWords(start) == {start, BitOr(start, IN_USE)}

\* The tables construction may leave: all zero (fresh zero-filled memory), or
\* one stale word in the first or in the last entry.
UninitPinned(start) ==
    {[i \in 1..MAX_PINNED |-> 0]} \cup
    {[i \in 1..MAX_PINNED |-> IF i = j THEN w ELSE 0] :
        j \in {1, MAX_PINNED}, w \in StaleWords(start)}

\* ZeusSuperblockHeaderHelper (sz, bufferSize, start), with the _pinned array
\* as found.
Construct(sz, bufferSize, start, pinned) ==
    [objectSize |-> sz,
     objectSizeIsPowerOfTwo |-> IsPowerOfTwo(sz),
     totalObjects |-> bufferSize \div sz,
     reapableObjects |-> bufferSize \div sz,
     objectsFree |-> bufferSize \div sz,
     start |-> start,
     position |-> start,
     pinned |-> pinned,
     theLock |-> FALSE,
     owner |-> NULL,
     prev |-> NULL,
     next |-> NULL,
     freeList |-> <<>>]

\* The constructor's assertions.
ConstructOk(sz, bufferSize, start) ==
    /\ align(start) = start
    /\ sz >= Alignment
    /\ (bufferSize \div sz = 1) \/ (sz % Alignment = 0)

Start == StartUnits * Alignment

\* The object sizes constructed: 32 takes the power-of-two path of normalize
\* and getSize, 48 the modulo path.
ObjectSizes == {2 * Alignment, 3 * Alignment}

\* Buffers of 1 .. MaxObjects slots, exact or with a tail too short for a slot.
BufferSizes(sz) == {sz * n + r : n \in 1..MaxObjects, r \in {0, sz - 1}}

\* Whether some pin table entry names the address, with either flag.
Pinned(h, addr) == \E i \in 1..MAX_PINNED : h.pinned[i] # 0 /\ AddrOf(h.pinned[i]) = addr

\* The addresses malloc() can hand out: the free list's entries and the slots
\* from the cursor on.
FreeListed(h) == {h.freeList[k] : k \in 1..Len(h.freeList)}

Reapable(h) == {h.position + k * h.objectSize : k \in 0..(h.reapableObjects - 1)}

Available(h) == FreeListed(h) \cup Reapable(h)

Occupied(h) == {i \in 1..MAX_PINNED : h.pinned[i] # 0}

\* The header as the constructor leaves it, the pin table apart.
Fresh(h) ==
    /\ h.objectsFree = h.totalObjects
    /\ h.reapableObjects = h.totalObjects
    /\ h.position = h.start
    /\ h.freeList = <<>>

\* The values n successive malloc() calls return.
RECURSIVE MallocSeq(_, _)
MallocSeq(h, n) ==
    IF n = 0 THEN <<>>
    ELSE LET r == malloc(h) IN <<r.ptr>> \o MallocSeq(r.hdr, n - 1)

\* The state when the constructor returns.
Constructed ==
    /\ \E sz \in ObjectSizes : \E bufferSize \in BufferSizes(sz) :
       \E pinned \in UninitPinned(Start) :
          /\ ConstructOk(sz, bufferSize, Start)
          /\ hdr = Construct(sz, bufferSize, Start, pinned)
    /\ fatal = "no"
    /\ live = {}
    /\ deferred = {}

Init ==
    /\ Constructed
    /\ scen = [stage |-> "off"]

\* Construction on zero-filled memory: one of the outcomes of Init.
InitZeroed ==
    /\ Init
    /\ \A i \in 1..MAX_PINNED : hdr.pinned[i] = 0

----------------------------------------------------------------------------
\* The calls the application and the completion handler make.

\* The base address of slot k.
SlotAddr(h, k) == h.start + k * h.objectSize

Slots(h) == {SlotAddr(h, k) : k \in 0..(h.totalObjects - 1)}

\* The pointers into the slot at base: its base and two interior ones.
PtrsInto(h, base) == {base, base + 1, base + h.objectSize - 1}

Malloc ==
    /\ fatal = "no"
    /\ LET r == malloc(hdr)
       IN  /\ hdr' = r.hdr
           /\ fatal' = r.fatal
           /\ live' = IF r.fatal = "no" /\ r.ptr # NULL THEN live \cup {r.ptr} ELSE live
    /\ UNCHANGED deferred

Do_free(ptr) ==
    /\ fatal = "no"
    /\ LET r == free(hdr, ptr)
       IN  /\ hdr' = r.hdr
           /\ fatal' = r.fatal
           /\ live' = IF r.fatal = "no" THEN live \ {ptr} ELSE live
           /\ deferred' = IF r.fatal = "no" /\ Pinned(hdr, ptr)
                           THEN deferred \cup {ptr} ELSE deferred

Do_pin(ptr) ==
    /\ fatal = "no"
    /\ LET r == pin(hdr, ptr)
       IN  hdr' = r.hdr /\ fatal' = r.fatal
    /\ UNCHANGED <<live, deferred>>

Do_unpin(ptr) ==
    /\ fatal = "no"
    /\ LET r == unpin(hdr, ptr)
       IN  /\ hdr' = r.hdr
           /\ fatal' = r.fatal
           /\ deferred' = IF r.hdr.objectsFree # hdr.objectsFree
                           THEN deferred \ {normalize(hdr, ptr)} ELSE deferred
    /\ UNCHANGED live

\* free() of an address malloc() returned and that is still allocated.
Release == \E ptr \in live : Do_free(ptr)

\* pin() of a pointer into an allocated slot.
Pin == \E base \in live : \E ptr \in PtrsInto(hdr, base) : Do_pin(ptr)

\* unpin() of a pointer into any slot, pinned or not.
Unpin == \E base \in Slots(hdr) : \E ptr \in PtrsInto(hdr, base) : Do_unpin(ptr)

\* Any call, by callers that follow no particular scenario.
Next ==
    \/ Malloc /\ UNCHANGED scen
    \/ Release /\ UNCHANGED scen
    \/ Pin /\ UNCHANGED scen
    \/ Unpin /\ UNCHANGED scen

\* Every outcome of construction, then any calls.
Spec == Init /\ [][Next]_vars

\* Construction on zero-filled memory, then any calls.
SpecZeroed == InitZeroed /\ [][Next]_vars

NextAR ==
    \/ Malloc /\ UNCHANGED scen
    \/ Release /\ UNCHANGED scen

\* Every outcome of construction, then malloc() and free() calls only.
SpecAR == Init /\ [][NextAR]_vars

----------------------------------------------------------------------------
\* Scenario C of the specification, after any malloc() and free() calls (they
\* leave any number of slots reapable): A = malloc(); pin(A); free(A);
\* malloc(); unpin(A); malloc().  scen.last is the value the latest malloc()
\* of the scenario returned.

InitC ==
    /\ Constructed
    /\ scen = [stage |-> "setup", A |-> NULL, last |-> NULL]

C_Setup ==
    /\ scen.stage = "setup"
    /\ Malloc \/ Release
    /\ UNCHANGED scen

C_Allocate ==
    /\ scen.stage = "setup"
    /\ malloc(hdr).ptr # NULL
    /\ Malloc
    /\ scen' = [stage |-> "allocated", A |-> malloc(hdr).ptr, last |-> malloc(hdr).ptr]

C_Pin ==
    /\ scen.stage = "allocated"
    /\ Do_pin(scen.A)
    /\ scen' = [scen EXCEPT !.stage = "pinned"]

C_Release ==
    /\ scen.stage = "pinned"
    /\ Do_free(scen.A)
    /\ scen' = [scen EXCEPT !.stage = "released"]

C_Allocate2 ==
    /\ scen.stage = "released"
    /\ Malloc
    /\ scen' = [scen EXCEPT !.stage = "reallocated", !.last = malloc(hdr).ptr]

C_Unpin ==
    /\ scen.stage = "reallocated"
    /\ Do_unpin(scen.A)
    /\ scen' = [scen EXCEPT !.stage = "unpinned"]

C_Allocate3 ==
    /\ scen.stage = "unpinned"
    /\ Malloc
    /\ scen' = [scen EXCEPT !.stage = "done", !.last = malloc(hdr).ptr]

NextC ==
    C_Setup \/ C_Allocate \/ C_Pin \/ C_Release \/ C_Allocate2 \/ C_Unpin \/ C_Allocate3

SpecC == InitC /\ [][NextC]_vars

----------------------------------------------------------------------------
\* The race of the specification's section 5, after any calls: the
\* application calls free(A) and the completion handler unpin(A) on an
\* allocation A that one pin table entry names, each as
\* lock(); the call; unlock().  A call takes two steps, the scan of the pin
\* table and what it does about the entry found, with the index and the flag
\* it read in its local variables.

InitRace ==
    /\ Constructed
    /\ scen = [stage |-> "setup"]

R_Setup ==
    /\ scen.stage = "setup"
    /\ Malloc \/ Release \/ Pin \/ Unpin
    /\ UNCHANGED scen

R_Start ==
    /\ scen.stage = "setup"
    /\ fatal = "no"
    /\ \E A \in live :
          /\ Cardinality({i \in Occupied(hdr) : AddrOf(hdr.pinned[i]) = A}) = 1
          /\ FlagOf(hdr.pinned[findPinned(hdr, A)]) = IN_USE
          /\ scen' = [stage |-> "race", A |-> A, snap |-> hdr, first |-> "none",
                      app |-> "ready", appI |-> 0,
                      hw |-> "ready", hwI |-> 0, hwClear |-> FALSE]
    /\ UNCHANGED <<hdr, fatal, live, deferred>>

Racing == scen.stage = "race" /\ fatal = "no"

App_lock ==
    /\ Racing /\ scen.app = "ready"
    /\ lock(hdr).ok
    /\ hdr' = lock(hdr).hdr
    /\ scen' = [scen EXCEPT !.app = "locked",
                            !.first = IF @ = "none" THEN "app" ELSE @]
    /\ UNCHANGED <<fatal, live, deferred>>

App_scan ==
    /\ Racing /\ scen.app = "locked"
    /\ scen.A % Alignment = 0
    /\ scen' = [scen EXCEPT !.app = "scanned", !.appI = findPinned(hdr, scen.A)]
    /\ UNCHANGED <<hdr, fatal, live, deferred>>

App_apply ==
    /\ Racing /\ scen.app = "scanned"
    /\ LET r == free_at(hdr, scen.A, scen.appI)
       IN  /\ hdr' = r.hdr
           /\ fatal' = r.fatal
           /\ live' = IF r.fatal = "no" THEN live \ {scen.A} ELSE live
           /\ deferred' = IF r.fatal = "no" /\ scen.appI # 0
                           THEN deferred \cup {scen.A} ELSE deferred
    /\ scen' = [scen EXCEPT !.app = "returned"]

App_unlock ==
    /\ Racing /\ scen.app = "returned"
    /\ hdr' = unlock(hdr)
    /\ scen' = [scen EXCEPT !.app = "done"]
    /\ UNCHANGED <<fatal, live, deferred>>

Hw_lock ==
    /\ Racing /\ scen.hw = "ready"
    /\ lock(hdr).ok
    /\ hdr' = lock(hdr).hdr
    /\ scen' = [scen EXCEPT !.hw = "locked",
                            !.first = IF @ = "none" THEN "hw" ELSE @]
    /\ UNCHANGED <<fatal, live, deferred>>

Hw_scan ==
    /\ Racing /\ scen.hw = "locked"
    /\ LET i == findPinned(hdr, normalize(hdr, scen.A))
       IN  scen' = [scen EXCEPT !.hw = "scanned", !.hwI = i,
                               !.hwClear = (i # 0 /\ FlagOf(hdr.pinned[i]) = 0)]
    /\ UNCHANGED <<hdr, fatal, live, deferred>>

Hw_apply ==
    /\ Racing /\ scen.hw = "scanned"
    /\ LET r == unpin_at(hdr, normalize(hdr, scen.A), scen.hwI, scen.hwClear)
       IN  /\ hdr' = r.hdr
           /\ fatal' = r.fatal
           /\ deferred' = IF r.hdr.objectsFree # hdr.objectsFree
                           THEN deferred \ {scen.A} ELSE deferred
    /\ scen' = [scen EXCEPT !.hw = "returned"]
    /\ UNCHANGED live

Hw_unlock ==
    /\ Racing /\ scen.hw = "returned"
    /\ hdr' = unlock(hdr)
    /\ scen' = [scen EXCEPT !.hw = "done"]
    /\ UNCHANGED <<fatal, live, deferred>>

NextRace ==
    \/ R_Setup \/ R_Start
    \/ App_lock \/ App_scan \/ App_apply \/ App_unlock
    \/ Hw_lock \/ Hw_scan \/ Hw_apply \/ Hw_unlock

SpecRace == InitRace /\ [][NextRace]_vars

----------------------------------------------------------------------------
\* A double release among any calls: free() called once more on an address
\* that free() has already put in the free list and that malloc() has not
\* handed out since.  One such call in a behaviour.

InitDR ==
    /\ Constructed
    /\ \A i \in 1..MAX_PINNED : hdr.pinned[i] = 0
    /\ scen = [stage |-> "single"]

\* Whether ptr is a released slot: in the free list, not allocated, named by
\* no pin table entry.
AlreadyFree(h, ptr) ==
    /\ ptr \in FreeListed(h)
    /\ ptr \notin live
    /\ ~Pinned(h, ptr)

DoubleRelease ==
    /\ scen.stage = "single"
    /\ \E ptr \in Slots(hdr) : AlreadyFree(hdr, ptr) /\ Do_free(ptr)
    /\ scen' = [stage |-> "doubled"]

NextDR ==
    \/ Malloc /\ UNCHANGED scen
    \/ Release /\ UNCHANGED scen
    \/ Pin /\ UNCHANGED scen
    \/ Unpin /\ UNCHANGED scen
    \/ DoubleRelease

SpecDR == InitDR /\ [][NextDR]_vars

----------------------------------------------------------------------------
\* The lifetime of a header: construction (with the registration of the slot
\* region when the process has a protection domain), any calls, destruction.
\* hdr has the field mr here (_mr); scen counts the calls of ibv_reg_mr and
\* keeps the arguments of the calls of ibv_dereg_mr.

\* Lines 96-102 of the constructor, on top of the member initialiser
\* _mr = NULL: pd is whether rdma_get_pd() != NULL, registered whether
\* ibv_reg_mr returned a handle (the handle is written as the address of the
\* region it stands for).
ConstructMr(h, pd, registered) ==
    h @@ [mr |-> IF pd /\ registered THEN h.start ELSE NULL]

InitLife ==
    /\ \E sz \in ObjectSizes : \E bufferSize \in BufferSizes(sz) :
       \E pinned \in UninitPinned(Start) : \E pd \in BOOLEAN, registered \in BOOLEAN :
          /\ ConstructOk(sz, bufferSize, Start)
          /\ hdr = ConstructMr(Construct(sz, bufferSize, Start, pinned), pd, registered)
          /\ scen = [stage |-> "alive", pd |-> pd,
                     reg_mr |-> IF pd THEN 1 ELSE 0, dereg_mr |-> <<>>]
    /\ fatal = "no"
    /\ live = {}
    /\ deferred = {}

Alive == scen.stage = "alive"

\* clear() called from outside: every slot is declared free.
Clear ==
    /\ fatal = "no"
    /\ hdr' = clear(hdr)
    /\ live' = {}
    /\ UNCHANGED <<fatal, deferred>>

\* ~ZeusSuperblockHeaderHelper(): clear(); ibv_dereg_mr(_mr).
Destroy ==
    /\ Alive
    /\ fatal = "no"
    /\ hdr' = clear(hdr)
    /\ live' = {}
    /\ scen' = [scen EXCEPT !.stage = "destroyed",
                            !.dereg_mr = Append(@, hdr.mr)]
    /\ UNCHANGED <<fatal, deferred>>

NextLife ==
    \/ Alive /\ Malloc /\ UNCHANGED scen
    \/ Alive /\ Release /\ UNCHANGED scen
    \/ Alive /\ Pin /\ UNCHANGED scen
    \/ Alive /\ Unpin /\ UNCHANGED scen
    \/ Alive /\ Clear /\ UNCHANGED scen
    \/ Destroy

SpecLife == InitLife /\ [][NextLife]_vars

----------------------------------------------------------------------------
\* normalize() and getSize() as functions of the object size and the pointer:
\* a header of any size the constructor accepts, a pointer anywhere in its
\* slots, and the two calls on it, in either order.  scen keeps the pointer
\* and what the calls returned (NULL: not called yet; 0: not called yet).

\* Object sizes on the mask path (16, 32, 64), on the modulo path (48) and,
\* for a superblock of one slot, not a multiple of Alignment (60).
QuerySizes ==
    {Alignment, 2 * Alignment, 3 * Alignment, 4 * Alignment, 4 * Alignment - 4}

InitQ ==
    /\ \E sz \in QuerySizes : \E bufferSize \in BufferSizes(sz) :
          /\ ConstructOk(sz, bufferSize, Start)
          /\ hdr = Construct(sz, bufferSize, Start, [i \in 1..MAX_PINNED |-> 0])
    /\ \E offset \in 0..(hdr.totalObjects * hdr.objectSize - 1) :
          scen = [stage |-> "query", ptr |-> hdr.start + offset,
                  normalized |-> NULL, size |-> 0]
    /\ fatal = "no"
    /\ live = {}
    /\ deferred = {}

Q_normalize ==
    /\ scen.stage = "query"
    /\ scen.normalized = NULL
    /\ scen' = [scen EXCEPT !.normalized = normalize(hdr, scen.ptr)]
    /\ UNCHANGED <<hdr, fatal, live, deferred>>

Q_getSize ==
    /\ scen.stage = "query"
    /\ scen.size = 0
    /\ scen' = [scen EXCEPT !.size = getSize(hdr, scen.ptr)]
    /\ UNCHANGED <<hdr, fatal, live, deferred>>

NextQ == Q_normalize \/ Q_getSize

SpecQ == InitQ /\ [][NextQ]_vars

----------------------------------------------------------------------------
\* A release through an interior pointer among any calls: free(ptr) with ptr
\* inside an allocated slot, not at its base.  One such call in a behaviour.

InitIP ==
    /\ Constructed
    /\ \A i \in 1..MAX_PINNED : hdr.pinned[i] = 0
    /\ scen = [stage |-> "bases"]

\* Interior pointers of the slot at base: one that is not aligned, one that is.
InteriorPtrs(h, base) ==
    {ptr \in {base + 1, base + Alignment} : ptr < base + h.objectSize}

\* free(ptr) by a caller that means the allocation at base.
Do_freeInto(base, ptr) ==
    /\ fatal = "no"
    /\ LET r == free(hdr, ptr)
       IN  /\ hdr' = r.hdr
           /\ fatal' = r.fatal
           /\ live' = IF r.fatal = "no" THEN live \ {base} ELSE live
           /\ deferred' = IF r.fatal = "no" /\ findPinned(hdr, ptr) # 0
                           THEN deferred \cup {base} ELSE deferred

ReleaseInterior ==
    /\ scen.stage = "bases"
    /\ \E base \in live : \E ptr \in InteriorPtrs(hdr, base) : Do_freeInto(base, ptr)
    /\ scen' = [stage |-> "interior"]

NextIP ==
    \/ Malloc /\ UNCHANGED scen
    \/ Release /\ UNCHANGED scen
    \/ Pin /\ UNCHANGED scen
    \/ Unpin /\ UNCHANGED scen
    \/ ReleaseInterior

SpecIP == InitIP /\ [][NextIP]_vars

----------------------------------------------------------------------------
\* clear() among any calls, on a header whose owner and list links the heap
\* sets.  scen.last tells whether the latest call was clear().

\* What the heap stores in _owner, _prev, _next: nullptr or the address of
\* another object.
Links == {NULL, Start}

InitCl ==
    /\ Constructed
    /\ \A i \in 1..MAX_PINNED : hdr.pinned[i] = 0
    /\ scen = [stage |-> "clear", last |-> "none"]

Cl_Call ==
    /\ Malloc \/ Release \/ Pin \/ Unpin
    /\ scen' = [scen EXCEPT !.last = "call"]

Cl_Clear ==
    /\ Clear
    /\ scen' = [scen EXCEPT !.last = "clear"]

Cl_SetOwner ==
    /\ fatal = "no"
    /\ \E o \in Links : hdr' = setOwner(hdr, o)
    /\ UNCHANGED <<fatal, live, deferred, scen>>

Cl_SetNext ==
    /\ fatal = "no"
    /\ \E n \in Links : hdr' = setNext(hdr, n)
    /\ UNCHANGED <<fatal, live, deferred, scen>>

Cl_SetPrev ==
    /\ fatal = "no"
    /\ \E q \in Links : hdr' = setPrev(hdr, q)
    /\ UNCHANGED <<fatal, live, deferred, scen>>

NextCl == Cl_Call \/ Cl_Clear \/ Cl_SetOwner \/ Cl_SetNext \/ Cl_SetPrev

SpecCl == InitCl /\ [][NextCl]_vars

----------------------------------------------------------------------------
\* Callers that keep to the contract: free() of live allocations, pin() of a
\* live allocation they have not pinned, unpin() of an allocation they have
\* pinned.  scen.pins is the set of slots the callers hold a pin on.

InitD ==
    /\ Constructed
    /\ scen = [stage |-> "contract", pins |-> {}]

D_Malloc ==
    /\ Malloc
    /\ UNCHANGED scen

D_Release ==
    /\ Release
    /\ UNCHANGED scen

D_Pin ==
    /\ \E base \in live \ scen.pins : \E ptr \in PtrsInto(hdr, base) :
          /\ Do_pin(ptr)
          /\ scen' = [scen EXCEPT !.pins = IF fatal' = "no" THEN @ \cup {base} ELSE @]

\* unpin() of the allocation at base, which the callers hold a pin on.
D_UnpinOf(base) ==
    /\ base \in scen.pins
    /\ \E ptr \in PtrsInto(hdr, base) :
          /\ Do_unpin(ptr)
          /\ scen' = [scen EXCEPT !.pins = IF fatal' = "no" THEN @ \ {base} ELSE @]

D_Unpin == \E base \in scen.pins : D_UnpinOf(base)

NextD == D_Malloc \/ D_Release \/ D_Pin \/ D_Unpin

\* Every outcome of construction, then calls that keep to the contract.
SpecD == InitD /\ [][NextD]_vars

\* The slot addresses of all the superblocks constructed.
SlotUniverse == {Start + k * sz : sz \in ObjectSizes, k \in 0..(MaxObjects - 1)}

\* Calls that keep to the contract, where every pin() is followed by its
\* unpin() in the end: a caller that holds a pin calls unpin() eventually.
SpecDFair == SpecD /\ \A base \in SlotUniverse : WF_vars(D_UnpinOf(base))

\* Construction on zero-filled memory, then calls that keep to the contract.
SpecDZeroed == InitD /\ (\A i \in 1..MAX_PINNED : hdr.pinned[i] = 0) /\ [][NextD]_vars

----------------------------------------------------------------------------
\* Any calls, with scen.stage telling whether pin() has been called since
\* construction ("fresh": not yet).

InitF ==
    /\ Constructed
    /\ scen = [stage |-> "fresh"]

F_Malloc ==
    /\ Malloc
    /\ UNCHANGED scen

F_Release ==
    /\ Release
    /\ UNCHANGED scen

F_Unpin ==
    /\ Unpin
    /\ UNCHANGED scen

F_Pin ==
    /\ Pin
    /\ scen' = [stage |-> "pinned"]

NextF == F_Malloc \/ F_Release \/ F_Unpin \/ F_Pin

SpecF == InitF /\ [][NextF]_vars

----------------------------------------------------------------------------
\* The claims.

----------------------------------------------------------------------------
\* C1: a slot whose base address an occupied pin table entry holds (flag set
\* or clear) is neither in the free list nor in the reapable region, and
\* malloc() does not return it.  Violated: pin(A); pin(A); free(A); unpin(A)
\* reclaims A while the second entry still names it.
C1_PinnedSlotNeverAvailable ==
    fatal = "no" =>
        \A i \in Occupied(hdr) :
            /\ AddrOf(hdr.pinned[i]) \notin Available(hdr)
            /\ malloc(hdr).ptr # AddrOf(hdr.pinned[i])

\* C3 as claimed: in scenario C the malloc() after free(A) does not return A,
\* and the malloc() after unpin(A) returns A, however many slots are still
\* reapable.  Violated on a superblock of three slots: the last malloc()
\* returns slot 2, from the cursor.
C3_ScenarioC_ReturnsA ==
    /\ (scen.stage = "reallocated" /\ fatal = "no") => scen.last # scen.A
    /\ (scen.stage = "done" /\ fatal = "no") => scen.last = scen.A

\* C3 as amended: in scenario C the malloc() after free(A) does not return A;
\* the malloc() after unpin(A) returns A when no slot is reapable at that
\* point, and the slot at the cursor when one is.
C3_ScenarioC_Amended ==
    [][ /\ (scen'.stage = "reallocated" /\ fatal' = "no") => scen'.last # scen'.A
        /\ (scen.stage = "unpinned" /\ scen'.stage = "done" /\ fatal' = "no") =>
              scen'.last = IF hdr.reapableObjects > 0 THEN hdr.position ELSE scen.A
      ]_vars

\* Scenario C has run to its end and its last malloc() took A from the free
\* list.
C3_Witness ==
    /\ scen.stage = "done"
    /\ fatal = "no"
    /\ scen.last = scen.A
    /\ scen.A # hdr.start

\* C4: under malloc() and free() of live allocations, 0 <= _objectsFree <=
\* _totalObjects, every address malloc() returns is start + k * objectSize
\* with 0 <= k < _totalObjects, and it is not one that is still allocated.
C4_CountAndSlotsSound ==
    /\ 0 <= hdr.objectsFree /\ hdr.objectsFree <= hdr.totalObjects
    /\ live \subseteq Slots(hdr)
    /\ fatal = "no" =>
          LET r == malloc(hdr)
          IN  /\ r.fatal = "no"
              /\ r.ptr # NULL =>
                    /\ r.ptr \in Slots(hdr)
                    /\ r.ptr % Alignment = 0
                    /\ r.ptr \notin live

\* Two allocations live while a released slot waits in the free list.
C4_Witness ==
    /\ fatal = "no"
    /\ Cardinality(live) >= 2
    /\ hdr.freeList # <<>>

\* C5: whenever _objectsFree = _totalObjects the free list is empty,
\* _reapableObjects = _totalObjects and the cursor is at _start; and once
\* every allocation has been released, with no release left waiting in the
\* pin table, the next malloc() returns slot 0.  Violated when the pin table
\* held a stale word at construction: unpin() of the slot it names reclaims a
\* slot that was never released, and the count passes _totalObjects.
C5_DrainedIsFresh ==
    /\ hdr.objectsFree = hdr.totalObjects => Fresh(hdr)
    /\ (fatal = "no" /\ live = {} /\ deferred = {}) =>
          malloc(hdr).ptr = SlotAddr(hdr, 0)

\* C6: a fresh superblock serves exactly _totalObjects malloc() calls in a row,
\* with pairwise distinct addresses; malloc() returns nullptr exactly when
\* _reapableObjects = 0 and the free list is empty, and then it neither aborts
\* nor changes the header.
C6_ExhaustionExact ==
    fatal = "no" =>
        /\ LET r == malloc(hdr)
           IN  /\ (r.ptr = NULL) <=> (hdr.reapableObjects = 0 /\ hdr.freeList = <<>>)
               /\ r.ptr = NULL => (r.fatal = "no" /\ r.hdr = hdr)
        /\ Fresh(hdr) =>
              LET n == hdr.totalObjects
                  ps == MallocSeq(hdr, n + 1)
              IN  /\ \A k \in 1..n : ps[k] # NULL
                  /\ \A j, k \in 1..n : j # k => ps[j] # ps[k]
                  /\ ps[n + 1] = NULL

\* Every slot of a superblock of several slots handed out, and the next
\* malloc() exhausted.
C6_Witness ==
    /\ fatal = "no"
    /\ hdr.totalObjects >= 2
    /\ live = Slots(hdr)
    /\ hdr.objectsFree = 0
    /\ malloc(hdr).ptr = NULL

\* The header both orders of the race must end in: the header at the start of
\* the race with A's entry zeroed and A reclaimed once.
RaceOutcome(snap, A) ==
    LET h0 == [snap EXCEPT !.pinned[findPinned(snap, A)] = 0]
    IN  IF snap.objectsFree + 1 = snap.totalObjects
        THEN [h0 EXCEPT !.freeList = <<>>,
                        !.objectsFree = snap.totalObjects,
                        !.reapableObjects = snap.totalObjects,
                        !.position = snap.start]
        ELSE [h0 EXCEPT !.freeList = <<A>> \o @, !.objectsFree = @ + 1]

C8_PinTableDistinct ==
    /\ Cardinality(Occupied(hdr)) <= MAX_PINNED
    /\ \A i, j \in Occupied(hdr) :
          i # j => AddrOf(hdr.pinned[i]) # AddrOf(hdr.pinned[j])

\* C2: free(A) of an allocation a pin table entry names leaves _objectsFree,
\* the free list, _reapableObjects and the cursor as they were; from then on
\* malloc() cannot return A; the unpin(A) that follows adds exactly 1 to
\* _objectsFree and makes A available to malloc() again.  Violated when the
\* pin table held a stale word at construction: unpin() of the slot it names
\* puts the slot on the free list, malloc() reaps the same slot as A, and
\* after pin(A); free(A) the slot is available although its release is
\* deferred.
C2_DeferredFree ==
    [][ /\ \A A \in live :
              (Do_free(A) /\ Pinned(hdr, A)) =>
                  /\ hdr'.objectsFree = hdr.objectsFree
                  /\ hdr'.freeList = hdr.freeList
                  /\ hdr'.reapableObjects = hdr.reapableObjects
                  /\ hdr'.position = hdr.position
        /\ \A A \in deferred' :
              /\ A \notin Available(hdr')
              /\ fatal' = "no" => malloc(hdr').ptr # A
        /\ \A A \in deferred : \A ptr \in PtrsInto(hdr, A) :
              Do_unpin(ptr) =>
                  /\ fatal' = "no"
                  /\ hdr'.objectsFree = hdr.objectsFree + 1
                  /\ A \in Available(hdr')
                  /\ A \notin deferred'
      ]_vars

\* C9: pin() with every entry occupied aborts and leaves the table as it was;
\* pin() with an empty entry does not abort and writes the slot's base
\* address, flag set, into the first empty entry, changing nothing else.
C9_PinOverflowOrFirstEmpty ==
    [][ \A base \in live : \A ptr \in PtrsInto(hdr, base) :
            Do_pin(ptr) =>
                IF Occupied(hdr) = 1..MAX_PINNED
                THEN fatal' = "pin" /\ hdr' = hdr
                ELSE /\ fatal' = "no"
                     /\ LET i == First((1..MAX_PINNED) \ Occupied(hdr))
                        IN  hdr' = [hdr EXCEPT !.pinned[i] = base + IN_USE]
      ]_vars

\* pin() has aborted on a full table.
C9_Witness ==
    /\ fatal = "pin"
    /\ Occupied(hdr) = 1..MAX_PINNED

\* C10: unpin() of a slot no entry names aborts and changes nothing; unpin()
\* of a slot an entry names zeroes the first such entry, and reclaims the slot
\* (free list insert, _objectsFree + 1, clear() when the superblock drained)
\* exactly when that entry's flag was clear.
C10_UnpinMatchOrFatal ==
    [][ \A base \in Slots(hdr) : \A ptr \in PtrsInto(hdr, base) :
            Do_unpin(ptr) =>
                LET hit == {i \in Occupied(hdr) : AddrOf(hdr.pinned[i]) = base}
                IN  IF hit = {}
                    THEN fatal' = "unpin" /\ hdr' = hdr
                    ELSE LET i == First(hit)
                             h0 == [hdr EXCEPT !.pinned[i] = 0]
                         IN  /\ fatal' = "no"
                             /\ IF FlagOf(hdr.pinned[i]) # 0
                                THEN hdr' = h0
                                ELSE IF hdr.objectsFree + 1 = hdr.totalObjects
                                THEN /\ hdr'.pinned = h0.pinned
                                     /\ hdr'.objectsFree = hdr.objectsFree + 1
                                     /\ Fresh(hdr')
                                ELSE hdr' = [h0 EXCEPT
                                         !.freeList = <<base>> \o @,
                                         !.objectsFree = @ + 1]
      ]_vars

\* unpin() has aborted for want of a matching entry.
C10_Witness ==
    /\ fatal = "unpin"
    /\ \E base \in Slots(hdr) : ~Pinned(hdr, base)

\* C11: free() of a slot that is already in the free list and that no pin
\* table entry names aborts, inserts nothing into the free list and leaves
\* _objectsFree as it was.  Violated: free() has no such test, it inserts the
\* slot a second time and counts it a second time.
C11_DoubleReleaseFatal ==
    [][ \A ptr \in Slots(hdr) :
            (scen.stage = "single" /\ AlreadyFree(hdr, ptr) /\ Do_free(ptr)
                /\ scen'.stage = "doubled") =>
                /\ fatal' # "no"
                /\ hdr'.freeList = hdr.freeList
                /\ hdr'.objectsFree = hdr.objectsFree
      ]_vars

\* C12: ibv_reg_mr is called at construction only and ibv_dereg_mr at
\* destruction only, and ibv_dereg_mr is called if and only if construction
\* obtained a handle.  Violated: the destructor calls ibv_dereg_mr(_mr)
\* whatever _mr is, with nullptr when there was no protection domain.
C12_RegistrationLifetime ==
    /\ scen.reg_mr = (IF scen.pd THEN 1 ELSE 0)
    /\ scen.stage = "alive" => scen.dereg_mr = <<>>
    /\ scen.stage = "destroyed" =>
          scen.dereg_mr = (IF hdr.mr # NULL THEN <<hdr.mr>> ELSE <<>>)

\* C13: for every address ptr malloc() returns, and every allocation still
\* live, normalize(ptr + k) = ptr for every 0 <= k < _objectSize.
\* (normalize() is a const method: it yields a pointer and no new header.)
C13_NormalizeRoundTrip ==
    fatal = "no" =>
        LET r == malloc(hdr)
            ptrs == live \cup (IF r.fatal = "no" /\ r.ptr # NULL THEN {r.ptr} ELSE {})
        IN  \A ptr \in ptrs : \A k \in 0..(hdr.objectSize - 1) :
                /\ normalize(hdr, ptr + k) = ptr
                /\ normalize(r.hdr, ptr + k) = ptr

\* malloc() is about to return a slot other than slot 0 from the free list of
\* a superblock whose object size is not a power of two.
C13_Witness ==
    /\ fatal = "no"
    /\ ~hdr.objectSizeIsPowerOfTwo
    /\ hdr.reapableObjects = 0
    /\ malloc(hdr).ptr \notin {NULL, hdr.start}
    /\ live # {}

\* C14: for a power-of-two object size, offset & (objectSize - 1) equals
\* offset mod objectSize for every offset in the slots, so that normalize()
\* and getSize() return what the modulo path returns; and for every object
\* size and every pointer p in the slots,
\* getSize(p) = objectSize - (p - normalize(p)) and 1 <= getSize(p) <=
\* objectSize.
C14_PathEquivalence ==
    scen.stage = "query" =>
        LET sz == hdr.objectSize
            offset == scen.ptr - hdr.start
        IN  /\ (\E n \in 0..Alignment : 2 ^ n = sz) =>
                  BitAnd(offset, sz - 1) = offset % sz
            /\ scen.normalized # NULL => scen.normalized = scen.ptr - (offset % sz)
            /\ scen.size # 0 =>
                  /\ scen.size = sz - (offset % sz)
                  /\ 1 <= scen.size /\ scen.size <= sz
            /\ (scen.normalized # NULL /\ scen.size # 0) =>
                  scen.size = sz - (scen.ptr - scen.normalized)

\* Both calls made on an interior pointer of the last slot of a superblock
\* whose object size is 64.
C14_Witness ==
    /\ scen.stage = "query"
    /\ hdr.objectSize = 4 * Alignment
    /\ hdr.totalObjects >= 2
    /\ scen.normalized = SlotAddr(hdr, hdr.totalObjects - 1)
    /\ scen.size \notin {0, hdr.objectSize}

\* C15: while _reapableObjects > 0 malloc() returns the cursor, advances it
\* by _objectSize and decrements _reapableObjects and _objectsFree, whatever
\* the free list holds; it takes the head of the free list only when
\* _reapableObjects = 0.
C15_ReapBeforeFreeList ==
    fatal = "no" =>
        LET r == malloc(hdr)
        IN  IF hdr.reapableObjects > 0
            THEN /\ r.fatal = "no"
                 /\ r.ptr = hdr.position
                 /\ r.hdr = [hdr EXCEPT !.position = @ + hdr.objectSize,
                                         !.reapableObjects = @ - 1,
                                         !.objectsFree = @ - 1]
            ELSE IF hdr.freeList # <<>>
            THEN /\ r.ptr = Head(hdr.freeList)
                 /\ r.hdr = [hdr EXCEPT !.freeList = Tail(@),
                                         !.objectsFree = @ - 1]
            ELSE r.ptr = NULL /\ r.hdr = hdr

\* A released slot waits in the free list while never-touched slots remain.
C15_Witness ==
    /\ fatal = "no"
    /\ hdr.reapableObjects > 0
    /\ hdr.freeList # <<>>
    /\ live # {}

\* C16: free(ptr) with ptr anywhere inside a slot that a pin table entry
\* names does what free() of the slot's base does (it clears the entry's flag
\* and reclaims nothing), and leaves only slot base addresses in the free
\* list.  Violated: free() compares the entries with ptr itself, finds none
\* for an interior pointer, and inserts that pointer into the free list.
\* (The calls that the alignment assertion of free() aborts are left aside.)
C16_ReleaseNormalizes ==
    [][ \A base \in live : \A ptr \in InteriorPtrs(hdr, base) :
            (scen.stage = "bases" /\ Pinned(hdr, base) /\ Do_freeInto(base, ptr)
                /\ scen'.stage = "interior" /\ fatal' = "no") =>
                /\ hdr' = free(hdr, base).hdr
                /\ FreeListed(hdr') \subseteq Slots(hdr')
      ]_vars

\* C17: in every state clear() yields a header with _objectsFree =
\* _reapableObjects = _totalObjects, an empty free list and the cursor at
\* slot 0, every other field (the pin table, _objectSize, _totalObjects,
\* _owner, _prev, _next among them) as it was; clear() of that header yields
\* the same header again, any number of times.
C17_ClearIdempotent ==
    LET c == clear(hdr)
    IN  /\ c = [hdr EXCEPT !.freeList = <<>>,
                           !.objectsFree = hdr.totalObjects,
                           !.reapableObjects = hdr.totalObjects,
                           !.position = SlotAddr(hdr, 0)]
        /\ clear(c) = c
        /\ clear(clear(c)) = c
        /\ scen.last = "clear" => (hdr = c /\ Fresh(hdr))

\* clear() has just run on a header with links set, an allocation released
\* under a pin and an entry in the pin table.
C17_Witness ==
    /\ scen.last = "clear"
    /\ fatal = "no"
    /\ Occupied(hdr) # {}
    /\ deferred # {}
    /\ hdr.owner # NULL /\ hdr.next # NULL
    /\ hdr.totalObjects >= 2

\* C18: under malloc(), free() of live allocations and pin() / unpin() with
\* one pin per slot, _objectsFree = _reapableObjects + the length of the free
\* list, the free list holds no slot twice, the cursor is _start +
\* (_totalObjects - _reapableObjects) * _objectSize, and _totalObjects =
\* _objectsFree + the live allocations + the allocations released under a
\* pin and not yet unpinned.
C18_SlotConservation ==
    /\ hdr.objectsFree = hdr.reapableObjects + Len(hdr.freeList)
    /\ Cardinality(FreeListed(hdr)) = Len(hdr.freeList)
    /\ hdr.position = hdr.start + (hdr.totalObjects - hdr.reapableObjects) * hdr.objectSize
    /\ hdr.totalObjects = hdr.objectsFree + Cardinality(live) + Cardinality(deferred)

\* C19: as long as pin() has not been called since construction every pin
\* table entry is 0, free() of a live allocation reclaims it at once, unpin()
\* of any slot aborts for want of an entry, and pin() writes entry 0.
\* Violated: the constructor does not initialise _pinned, and the table holds
\* whatever the memory held.
C19_PinTableEmptyAtConstruction ==
    (scen.stage = "fresh" /\ fatal = "no") =>
        /\ \A i \in 1..MAX_PINNED : hdr.pinned[i] = 0
        /\ \A A \in live : free(hdr, A) = Ok(reclaim(hdr, A))
        /\ \A base \in Slots(hdr) : \A ptr \in PtrsInto(hdr, base) :
              /\ unpin(hdr, ptr).fatal = "unpin"
              /\ pin(hdr, ptr) = Ok([hdr EXCEPT !.pinned[1] = base + IN_USE])

\* C20: free() of an allocation that a pin table entry names with its flag
\* set returns at once, having cleared the flag and nothing else; and when
\* every pin() is followed by its unpin(), every allocation released under a
\* pin becomes available to malloc() again and every occupied entry becomes
\* empty again, unless the process aborts.  Violated when the pin table held
\* a stale word at construction: no caller holds the pin it stands for, and
\* no unpin() comes.
C20_ReleaseNeverWaits ==
    /\ [](\A A \in SlotUniverse :
            (fatal = "no" /\ A \in live /\ findPinned(hdr, A) # 0
                /\ FlagOf(hdr.pinned[findPinned(hdr, A)]) = IN_USE) =>
                free(hdr, A) = Ok([hdr EXCEPT !.pinned[findPinned(hdr, A)] = A]))
    /\ \A A \in SlotUniverse :
          (A \in deferred) ~> (A \in Available(hdr) \/ fatal # "no")
    /\ \A i \in 1..MAX_PINNED :
          (hdr.pinned[i] # 0) ~> (hdr.pinned[i] = 0 \/ fatal # "no")

====
